---- MODULE Spec2Model ----
(***************************************************************************)
(* Model of streamlit-app.py: a Streamlit page that takes two API keys and *)
(* a research topic, runs a two-task CrewAI crew and splits the returned   *)
(* text on the literal marker "BLOG POST:" into a research pane and a blog *)
(* pane.                                                                   *)
(*                                                                         *)
(* A Python str is modelled as the sequence of its characters, so that     *)
(* substring search, str.split and f-string substitution are computed on   *)
(* the characters exactly as Python computes them.                         *)
(*                                                                         *)
(* Streamlit re-executes the whole script from top to bottom on every      *)
(* widget interaction.  One script run is one action, except that a run    *)
(* which reaches crew.kickoff stops there (pc = "calling") until the       *)
(* external call returns or raises; the rest of the handler is the action  *)
(* that consumes that outcome.  One browser session is modelled; while the *)
(* call blocks, the session takes no further input.                        *)
(***************************************************************************)
EXTENDS Integers, Sequences, FiniteSets, TLC

VARIABLES
    api_key,           \* value of the "OpenAI API Key" field        (line 122)
    serper_api_key,    \* value of the "SerperDev API Key" field     (line 126)
    topic,             \* value of the topic field                   (line 143)
    environ,           \* os.environ restricted to the two key variables
    button,            \* what st.button returned in the latest script run
    pc,                \* "idle": script run finished; "calling": inside
                       \* crew.kickoff; "uncaught": run aborted by an exception
    kickoffs,          \* crew.kickoff invocations made by the latest script run
    crew,              \* the Crew handed to kickoff while the call is running
    result,            \* local `result` of the button handler       (line 164)
    research_content,  \* local `research_content`                   (line 172)
    blog_content,      \* local `blog_content`                       (line 172)
    page,              \* what the latest script run rendered
    entries,           \* history: the entries made into the two key fields
    environ0           \* history: os.environ when the session started

vars == <<api_key, serper_api_key, topic, environ, button, pc, kickoffs, crew,
          result, research_content, blog_content, page, entries, environ0>>

-----------------------------------------------------------------------------
(* Bounds of the model.                                                    *)

\* Number of pieces a returned text is assembled from.
MaxChunks == 3

\* Number of entries made into the key fields in one session.
MaxEntries == 3

-----------------------------------------------------------------------------
(* Python strings as sequences of characters.                              *)

\* sep occurs in s at index i (1-based)
OccursAt(s, sep, i) ==
    /\ i >= 1
    /\ i + Len(sep) - 1 <= Len(s)
    /\ SubSeq(s, i, i + Len(sep) - 1) = sep

\* `sep in s`
Contains(s, sep) == \E i \in 1..(Len(s) + 1) : OccursAt(s, sep, i)

\* s.find(sep): index of the leftmost occurrence, 0 when there is none
Find(s, sep) ==
    IF Contains(s, sep)
    THEN CHOOSE i \in 1..(Len(s) + 1) :
            /\ OccursAt(s, sep, i)
            /\ \A j \in 1..(i - 1) : ~OccursAt(s, sep, j)
    ELSE 0

\* s.rfind(sep): index of the rightmost occurrence, 0 when there is none
RFind(s, sep) ==
    IF Contains(s, sep)
    THEN CHOOSE i \in 1..(Len(s) + 1) :
            /\ OccursAt(s, sep, i)
            /\ \A j \in (i + 1)..(Len(s) + 1) : ~OccursAt(s, sep, j)
    ELSE 0

\* The marker the handler splits on: "BLOG POST:"
Marker ==
   <<
      "B", "L", "O", "G", " ", "P", "O", "S", "T", ":" >>

\* Default value of the topic field: "Medical Industry using Generative AI"
DefaultTopic ==
   <<
      "M", "e", "d", "i", "c", "a", "l", " ", "I", "n", "d", "u", "s", "t",
      "r", "y", " ", "u", "s", "i", "n", "g", " ", "G", "e", "n", "e", "r",
      "a", "t", "i", "v", "e", " ", "A", "I" >>

-----------------------------------------------------------------------------
(* The literal texts of the two task descriptors (lines 66-101).           *)

\* research_task.description before {topic}:
\*   "1. Conduct comprehensive research on "
ResearchDescriptionHead ==
   <<
      "1", ".", " ", "C", "o", "n", "d", "u", "c", "t", " ", "c", "o", "m",
      "p", "r", "e", "h", "e", "n", "s", "i", "v", "e", " ", "r", "e", "s",
      "e", "a", "r", "c", "h", " ", "o", "n", " " >>

\* research_task.description after {topic}:
\*   " including: - Recent developments and news - Key industry trends and
\*   innovations - Expert opinions and analyses - Statistical data and market
\*   insights 2. Evaluate source credibility and fact-check all information
\*   3. Organize findings into a structured research brief 4. Include all
\*   relevant citations and sources"
ResearchDescriptionTail ==
   <<
      " ", "i", "n", "c", "l", "u", "d", "i", "n", "g", ":", "\n", " ", " ",
      " ", " ", " ", " ", " ", " ", " ", " ", " ", " ", "-", " ", "R", "e",
      "c", "e", "n", "t", " ", "d", "e", "v", "e", "l", "o", "p", "m", "e",
      "n", "t", "s", " ", "a", "n", "d", " ", "n", "e", "w", "s", "\n", " ",
      " ", " ", " ", " ", " ", " ", " ", " ", " ", " ", " ", "-", " ", "K",
      "e", "y", " ", "i", "n", "d", "u", "s", "t", "r", "y", " ", "t", "r",
      "e", "n", "d", "s", " ", "a", "n", "d", " ", "i", "n", "n", "o", "v",
      "a", "t", "i", "o", "n", "s", "\n", " ", " ", " ", " ", " ", " ", " ",
      " ", " ", " ", " ", " ", "-", " ", "E", "x", "p", "e", "r", "t", " ",
      "o", "p", "i", "n", "i", "o", "n", "s", " ", "a", "n", "d", " ", "a",
      "n", "a", "l", "y", "s", "e", "s", "\n", " ", " ", " ", " ", " ", " ",
      " ", " ", " ", " ", " ", " ", "-", " ", "S", "t", "a", "t", "i", "s",
      "t", "i", "c", "a", "l", " ", "d", "a", "t", "a", " ", "a", "n", "d",
      " ", "m", "a", "r", "k", "e", "t", " ", "i", "n", "s", "i", "g", "h",
      "t", "s", "\n", " ", " ", " ", " ", " ", " ", " ", " ", " ", " ", " ",
      " ", "2", ".", " ", "E", "v", "a", "l", "u", "a", "t", "e", " ", "s",
      "o", "u", "r", "c", "e", " ", "c", "r", "e", "d", "i", "b", "i", "l",
      "i", "t", "y", " ", "a", "n", "d", " ", "f", "a", "c", "t", "-", "c",
      "h", "e", "c", "k", " ", "a", "l", "l", " ", "i", "n", "f", "o", "r",
      "m", "a", "t", "i", "o", "n", "\n", " ", " ", " ", " ", " ", " ", " ",
      " ", " ", " ", " ", " ", "3", ".", " ", "O", "r", "g", "a", "n", "i",
      "z", "e", " ", "f", "i", "n", "d", "i", "n", "g", "s", " ", "i", "n",
      "t", "o", " ", "a", " ", "s", "t", "r", "u", "c", "t", "u", "r", "e",
      "d", " ", "r", "e", "s", "e", "a", "r", "c", "h", " ", "b", "r", "i",
      "e", "f", "\n", " ", " ", " ", " ", " ", " ", " ", " ", " ", " ", " ",
      " ", "4", ".", " ", "I", "n", "c", "l", "u", "d", "e", " ", "a", "l",
      "l", " ", "r", "e", "l", "e", "v", "a", "n", "t", " ", "c", "i", "t",
      "a", "t", "i", "o", "n", "s", " ", "a", "n", "d", " ", "s", "o", "u",
      "r", "c", "e", "s" >>

\* research_task.expected_output:
\*   "A detailed research report containing: - Executive summary of key
\*   findings - Comprehensive analysis of current trends and developments
\*   - List of verified facts and statistics - All citations and links to
\*   original sources - Clear categorization of main themes and patterns"
ResearchExpectedOutput ==
   <<
      "A", " ", "d", "e", "t", "a", "i", "l", "e", "d", " ", "r", "e", "s",
      "e", "a", "r", "c", "h", " ", "r", "e", "p", "o", "r", "t", " ", "c",
      "o", "n", "t", "a", "i", "n", "i", "n", "g", ":", "\n", " ", " ", " ",
      " ", " ", " ", " ", " ", " ", " ", " ", " ", "-", " ", "E", "x", "e",
      "c", "u", "t", "i", "v", "e", " ", "s", "u", "m", "m", "a", "r", "y",
      " ", "o", "f", " ", "k", "e", "y", " ", "f", "i", "n", "d", "i", "n",
      "g", "s", "\n", " ", " ", " ", " ", " ", " ", " ", " ", " ", " ", " ",
      " ", "-", " ", "C", "o", "m", "p", "r", "e", "h", "e", "n", "s", "i",
      "v", "e", " ", "a", "n", "a", "l", "y", "s", "i", "s", " ", "o", "f",
      " ", "c", "u", "r", "r", "e", "n", "t", " ", "t", "r", "e", "n", "d",
      "s", " ", "a", "n", "d", " ", "d", "e", "v", "e", "l", "o", "p", "m",
      "e", "n", "t", "s", "\n", " ", " ", " ", " ", " ", " ", " ", " ", " ",
      " ", " ", " ", "-", " ", "L", "i", "s", "t", " ", "o", "f", " ", "v",
      "e", "r", "i", "f", "i", "e", "d", " ", "f", "a", "c", "t", "s", " ",
      "a", "n", "d", " ", "s", "t", "a", "t", "i", "s", "t", "i", "c", "s",
      "\n", " ", " ", " ", " ", " ", " ", " ", " ", " ", " ", " ", " ", "-",
      " ", "A", "l", "l", " ", "c", "i", "t", "a", "t", "i", "o", "n", "s",
      " ", "a", "n", "d", " ", "l", "i", "n", "k", "s", " ", "t", "o", " ",
      "o", "r", "i", "g", "i", "n", "a", "l", " ", "s", "o", "u", "r", "c",
      "e", "s", "\n", " ", " ", " ", " ", " ", " ", " ", " ", " ", " ", " ",
      " ", "-", " ", "C", "l", "e", "a", "r", " ", "c", "a", "t", "e", "g",
      "o", "r", "i", "z", "a", "t", "i", "o", "n", " ", "o", "f", " ", "m",
      "a", "i", "n", " ", "t", "h", "e", "m", "e", "s", " ", "a", "n", "d",
      " ", "p", "a", "t", "t", "e", "r", "n", "s" >>

\* writing_task.description:
\*   "Using the research brief provided, create an engaging blog post that:
\*   1. Transforms technical information into accessible content 2. Maintains
\*   all factual accuracy and citations from the research 3. Includes:
\*   - Attention-grabbing introduction - Well-structured body sections with
\*   clear headings - Compelling conclusion 4. Preserves all source citations
\*   in [Source: URL] format 5. Includes a References section at the end"
WritingDescription ==
   <<
      "U", "s", "i", "n", "g", " ", "t", "h", "e", " ", "r", "e", "s", "e",
      "a", "r", "c", "h", " ", "b", "r", "i", "e", "f", " ", "p", "r", "o",
      "v", "i", "d", "e", "d", ",", " ", "c", "r", "e", "a", "t", "e", " ",
      "a", "n", " ", "e", "n", "g", "a", "g", "i", "n", "g", " ", "b", "l",
      "o", "g", " ", "p", "o", "s", "t", " ", "t", "h", "a", "t", ":", "\n",
      " ", " ", " ", " ", " ", " ", " ", " ", " ", " ", " ", " ", "1", ".",
      " ", "T", "r", "a", "n", "s", "f", "o", "r", "m", "s", " ", "t", "e",
      "c", "h", "n", "i", "c", "a", "l", " ", "i", "n", "f", "o", "r", "m",
      "a", "t", "i", "o", "n", " ", "i", "n", "t", "o", " ", "a", "c", "c",
      "e", "s", "s", "i", "b", "l", "e", " ", "c", "o", "n", "t", "e", "n",
      "t", "\n", " ", " ", " ", " ", " ", " ", " ", " ", " ", " ", " ", " ",
      "2", ".", " ", "M", "a", "i", "n", "t", "a", "i", "n", "s", " ", "a",
      "l", "l", " ", "f", "a", "c", "t", "u", "a", "l", " ", "a", "c", "c",
      "u", "r", "a", "c", "y", " ", "a", "n", "d", " ", "c", "i", "t", "a",
      "t", "i", "o", "n", "s", " ", "f", "r", "o", "m", " ", "t", "h", "e",
      " ", "r", "e", "s", "e", "a", "r", "c", "h", "\n", " ", " ", " ", " ",
      " ", " ", " ", " ", " ", " ", " ", " ", "3", ".", " ", "I", "n", "c",
      "l", "u", "d", "e", "s", ":", "\n", " ", " ", " ", " ", " ", " ", " ",
      " ", " ", " ", " ", " ", " ", " ", " ", " ", "-", " ", "A", "t", "t",
      "e", "n", "t", "i", "o", "n", "-", "g", "r", "a", "b", "b", "i", "n",
      "g", " ", "i", "n", "t", "r", "o", "d", "u", "c", "t", "i", "o", "n",
      "\n", " ", " ", " ", " ", " ", " ", " ", " ", " ", " ", " ", " ", " ",
      " ", " ", " ", "-", " ", "W", "e", "l", "l", "-", "s", "t", "r", "u",
      "c", "t", "u", "r", "e", "d", " ", "b", "o", "d", "y", " ", "s", "e",
      "c", "t", "i", "o", "n", "s", " ", "w", "i", "t", "h", " ", "c", "l",
      "e", "a", "r", " ", "h", "e", "a", "d", "i", "n", "g", "s", "\n", " ",
      " ", " ", " ", " ", " ", " ", " ", " ", " ", " ", " ", " ", " ", " ",
      " ", "-", " ", "C", "o", "m", "p", "e", "l", "l", "i", "n", "g", " ",
      "c", "o", "n", "c", "l", "u", "s", "i", "o", "n", "\n", " ", " ", " ",
      " ", " ", " ", " ", " ", " ", " ", " ", " ", "4", ".", " ", "P", "r",
      "e", "s", "e", "r", "v", "e", "s", " ", "a", "l", "l", " ", "s", "o",
      "u", "r", "c", "e", " ", "c", "i", "t", "a", "t", "i", "o", "n", "s",
      " ", "i", "n", " ", "[", "S", "o", "u", "r", "c", "e", ":", " ", "U",
      "R", "L", "]", " ", "f", "o", "r", "m", "a", "t", "\n", " ", " ", " ",
      " ", " ", " ", " ", " ", " ", " ", " ", " ", "5", ".", " ", "I", "n",
      "c", "l", "u", "d", "e", "s", " ", "a", " ", "R", "e", "f", "e", "r",
      "e", "n", "c", "e", "s", " ", "s", "e", "c", "t", "i", "o", "n", " ",
      "a", "t", " ", "t", "h", "e", " ", "e", "n", "d" >>

\* writing_task.expected_output:
\*   "A polished blog post in markdown format that: - Engages readers while
\*   maintaining accuracy - Contains properly structured sections - Includes
\*   inline citations hyperlinked to the original source URL - Presents
\*   information in an accessible yet informative way - Follows proper
\*   markdown formatting"
WritingExpectedOutput ==
   <<
      "A", " ", "p", "o", "l", "i", "s", "h", "e", "d", " ", "b", "l", "o",
      "g", " ", "p", "o", "s", "t", " ", "i", "n", " ", "m", "a", "r", "k",
      "d", "o", "w", "n", " ", "f", "o", "r", "m", "a", "t", " ", "t", "h",
      "a", "t", ":", "\n", " ", " ", " ", " ", " ", " ", " ", " ", " ", " ",
      " ", " ", "-", " ", "E", "n", "g", "a", "g", "e", "s", " ", "r", "e",
      "a", "d", "e", "r", "s", " ", "w", "h", "i", "l", "e", " ", "m", "a",
      "i", "n", "t", "a", "i", "n", "i", "n", "g", " ", "a", "c", "c", "u",
      "r", "a", "c", "y", "\n", " ", " ", " ", " ", " ", " ", " ", " ", " ",
      " ", " ", " ", "-", " ", "C", "o", "n", "t", "a", "i", "n", "s", " ",
      "p", "r", "o", "p", "e", "r", "l", "y", " ", "s", "t", "r", "u", "c",
      "t", "u", "r", "e", "d", " ", "s", "e", "c", "t", "i", "o", "n", "s",
      "\n", " ", " ", " ", " ", " ", " ", " ", " ", " ", " ", " ", " ", "-",
      " ", "I", "n", "c", "l", "u", "d", "e", "s", " ", "i", "n", "l", "i",
      "n", "e", " ", "c", "i", "t", "a", "t", "i", "o", "n", "s", " ", "h",
      "y", "p", "e", "r", "l", "i", "n", "k", "e", "d", " ", "t", "o", " ",
      "t", "h", "e", " ", "o", "r", "i", "g", "i", "n", "a", "l", " ", "s",
      "o", "u", "r", "c", "e", " ", "U", "R", "L", "\n", " ", " ", " ", " ",
      " ", " ", " ", " ", " ", " ", " ", " ", "-", " ", "P", "r", "e", "s",
      "e", "n", "t", "s", " ", "i", "n", "f", "o", "r", "m", "a", "t", "i",
      "o", "n", " ", "i", "n", " ", "a", "n", " ", "a", "c", "c", "e", "s",
      "s", "i", "b", "l", "e", " ", "y", "e", "t", " ", "i", "n", "f", "o",
      "r", "m", "a", "t", "i", "v", "e", " ", "w", "a", "y", "\n", " ", " ",
      " ", " ", " ", " ", " ", " ", " ", " ", " ", " ", "-", " ", "F", "o",
      "l", "l", "o", "w", "s", " ", "p", "r", "o", "p", "e", "r", " ", "m",
      "a", "r", "k", "d", "o", "w", "n", " ", "f", "o", "r", "m", "a", "t",
      "t", "i", "n", "g" >>

-----------------------------------------------------------------------------
(* Inputs of the model.                                                    *)

\* The two environment variables the sidebar writes (lines 124, 128).
EnvNames == {"OPENAI_API_KEY", "SERPER_API_KEY"}

\* Values typed into a key field; "" is the field left or made empty.
Keys == {"", "k1", "k2"}

\* os.environ at session start, after load_dotenv() (line 9): each of the two
\* variables is either absent or carries a key from the process or .env file.
InitialEnvirons ==
    { e \in UNION { [D -> {"k0"}] : D \in SUBSET EnvNames } : TRUE }

\* Values typed into the topic field.
Topics == { DefaultTopic, << >>, <<"A", "I">> }

\* Examples of section 8 of the specification.
\* "AAA BLOG POST: BBB"
ExampleOnce ==
    <<"A", "A", "A", " ", "B", "L", "O", "G", " ", "P", "O", "S", "T", ":",
      " ", "B", "B", "B" >>

\* "no marker here"
ExampleAbsent ==
    <<"n", "o", " ", "m", "a", "r", "k", "e", "r", " ", "h", "e", "r", "e" >>

\* "X BLOG POST: Y BLOG POST: Z"
ExampleTwice ==
    <<"X", " ", "B", "L", "O", "G", " ", "P", "O", "S", "T", ":", " ", "Y",
      " ", "B", "L", "O", "G", " ", "P", "O", "S", "T", ":", " ", "Z" >>

\* Pieces a returned text is assembled from: ordinary text, the marker, and
\* the two halves of the marker ("BLOG " and "POST:"), so that texts with a
\* partial marker and with a marker completed across two pieces both occur.
Pieces ==
    { <<"X">>, Marker,
      <<"B", "L", "O", "G", " ">>, <<"P", "O", "S", "T", ":">> }

RECURSIVE ChunkStrings(_)
ChunkStrings(n) ==
    IF n = 0 THEN { << >> }
    ELSE LET shorter == ChunkStrings(n - 1)
         IN  shorter \cup { s \o p : s \in shorter, p \in Pieces }

\* The texts crew.kickoff may return.
ReturnedStrings ==
    ChunkStrings(MaxChunks) \cup { ExampleOnce, ExampleAbsent, ExampleTwice }

\* Values bound to `result` at line 164.  kickoff is an external call: it
\* returns a str, or an object that is not a str (and has no split method).
NoResult == [type |-> "unbound", value |-> << >>]
StrResult(s) == [type |-> "str", value |-> s]
ObjResult == [type |-> "object", value |-> << >>]
Returned == { StrResult(s) : s \in ReturnedStrings } \cup { ObjResult }

\* Exceptions crew.kickoff may raise; all are subclasses of Exception.
Raised == { "AuthenticationError", "RateLimitError", "ValueError" }

\* Every exception class of the model derives from Exception.
ExceptionClasses == Raised \cup { "AttributeError" }

-----------------------------------------------------------------------------
(* The functions of streamlit-app.py.                                      *)

\* Variant: the description is not an f-string, "{topic}" stays literal.
create_agents_and_tasks_plain(t) ==
    LET llm == [model |-> "gpt-4"]
        search_tool == [tool |-> "SerperDevTool", n |-> 5]
        senior_research_analyst ==
            [ role |-> "Senior Research Analyst",
              goal |-> "Research, analyze and synthesize",
              backstory |-> "Expert researcher with years of experience in analyzing industry trends",
              allow_delegation |-> FALSE, verbose |-> TRUE,
              tools |-> <<search_tool>>, llm |-> llm ]
        content_writer ==
            [ role |-> "Content Writer",
              goal |-> "Transform research findings into engaging blog post while maintaining accuracy",
              backstory |-> "Experienced content writer specializing in technical and industry analysis",
              allow_delegation |-> FALSE, verbose |-> TRUE,
              tools |-> << >>, llm |-> llm ]
        research_task ==
            [ description |-> ResearchDescriptionHead
                              \o <<"{", "t", "o", "p", "i", "c", "}">>
                              \o ResearchDescriptionTail,
              expected_output |-> ResearchExpectedOutput,
              agent |-> senior_research_analyst ]
        writing_task ==
            [ description |-> WritingDescription,
              expected_output |-> WritingExpectedOutput,
              agent |-> content_writer ]
    IN  <<senior_research_analyst, content_writer, research_task, writing_task>>

\* create_agents_and_tasks(topic), lines 40-103: the two agents and the two
\* tasks, in the order of the returned tuple.
create_agents_and_tasks(t) ==
    LET llm == [model |-> "gpt-4"]
        search_tool == [tool |-> "SerperDevTool", n |-> 5]
        senior_research_analyst ==
            [ role |-> "Senior Research Analyst",
              goal |-> "Research, analyze and synthesize",
              backstory |-> "Expert researcher with years of experience in analyzing industry trends",
              allow_delegation |-> FALSE, verbose |-> TRUE,
              tools |-> <<search_tool>>, llm |-> llm ]
        content_writer ==
            [ role |-> "Content Writer",
              goal |-> "Transform research findings into engaging blog post while maintaining accuracy",
              backstory |-> "Experienced content writer specializing in technical and industry analysis",
              allow_delegation |-> FALSE, verbose |-> TRUE,
              tools |-> << >>, llm |-> llm ]
        research_task ==
            [ description |-> ResearchDescriptionHead \o t
                              \o ResearchDescriptionTail,
              expected_output |-> ResearchExpectedOutput,
              agent |-> senior_research_analyst ]
        writing_task ==
            [ description |-> WritingDescription,
              expected_output |-> WritingExpectedOutput,
              agent |-> content_writer ]
    IN  <<senior_research_analyst, content_writer, research_task, writing_task>>

\* run_crew(topic), lines 105-114: the Crew on which kickoff is called and
\* the inputs passed to it.
run_crew(t) ==
    LET made == create_agents_and_tasks(t)
    IN  [ agents |-> <<made[1], made[2]>>,
          tasks |-> <<made[3], made[4]>>,
          verbose |-> TRUE,
          inputs |-> [topic |-> t] ]

\* Variant: os.environ.setdefault, a value already present is kept.
SetEnv_setdefault(e, name, v) ==
    IF v # "" /\ name \notin DOMAIN e THEN (name :> v) @@ e ELSE e

\* Variant: the assignment is not guarded by `if api_key:`.
SetEnv_unguarded(e, name, v) == (name :> v) @@ e

\* `if v: os.environ[name] = v`, lines 123-124 and 127-128.
SetEnv(e, name, v) ==
    IF v # "" THEN (name :> v) @@ e ELSE e

\* The sidebar block of a script run, lines 121-128.
Sidebar(e, a, s) ==
    SetEnv(SetEnv(e, "OPENAI_API_KEY", a), "SERPER_API_KEY", s)

\* Variant: the handler body runs on every script run.
HandlerRuns_always(clicked) == TRUE

\* `if st.button(...)`, line 146: the handler runs only in the script run
\* caused by a press of the button.
HandlerRuns(clicked) == clicked

\* Variant: `and` in place of `or`.
MissingKeys_and(a, s) == a = "" /\ s = ""

\* `not api_key or not serper_api_key`, line 147.
MissingKeys(a, s) == a = "" \/ s = ""

\* Variant: str.rsplit, the split is made at the last occurrence.
StrSplit_rsplit(s, sep) ==
    LET i == RFind(s, sep)
    IN  IF i = 0 THEN <<s>>
        ELSE <<SubSeq(s, 1, i - 1), SubSeq(s, i + Len(sep), Len(s))>>

\* s.split(sep, 1), line 172: the list of one or two strings.
StrSplit(s, sep) ==
    LET i == Find(s, sep)
    IN  IF i = 0 THEN <<s>>
        ELSE <<SubSeq(s, 1, i - 1), SubSeq(s, i + Len(sep), Len(s))>>

\* Variant: the except clause resets both sections.
SplitResult_reset(r) ==
    IF r.type # "str"
    THEN [raised |-> "AttributeError",
          research_content |-> << >>, blog_content |-> << >>]
    ELSE LET parts == StrSplit(r.value, Marker)
         IN  IF Len(parts) = 2
             THEN [raised |-> "",
                   research_content |-> parts[1], blog_content |-> parts[2]]
             ELSE [raised |-> "",
                   research_content |-> << >>, blog_content |-> << >>]

\* Variant: no except clause, the unpacking error propagates.
SplitResult_noexcept(r) ==
    IF r.type # "str"
    THEN [raised |-> "AttributeError",
          research_content |-> << >>, blog_content |-> << >>]
    ELSE LET parts == StrSplit(r.value, Marker)
         IN  IF Len(parts) = 2
             THEN [raised |-> "",
                   research_content |-> parts[1], blog_content |-> parts[2]]
             ELSE [raised |-> "ValueError",
                   research_content |-> << >>, blog_content |-> << >>]

\* The split step, lines 171-175.  `raised` is the exception that leaves the
\* inner try statement ("" when none does): result.split of a value that is
\* not a str raises AttributeError, which `except ValueError` does not
\* handle; unpacking a one-element list raises ValueError, which it does.
SplitResult(r) ==
    IF r.type # "str"
    THEN [raised |-> "AttributeError",
          research_content |-> << >>, blog_content |-> << >>]
    ELSE LET parts == StrSplit(r.value, Marker)
         IN  IF Len(parts) = 2
             THEN [raised |-> "",
                   research_content |-> parts[1], blog_content |-> parts[2]]
             ELSE [raised |-> "",
                   research_content |-> r.value, blog_content |-> << >>]

\* Variant: `except ValueError` at the top level.
OuterExcept_valueerror(e) == e = "ValueError"

\* `except Exception as e`, line 209: the classes the handler catches.
OuterExcept(e) == e \in ExceptionClasses

-----------------------------------------------------------------------------
(* The rendered page.                                                      *)

\* Line 148.
BothKeysMessage == "Please enter both API keys in the sidebar first!"

\* Lines 210-211: f"An error occurred: {str(e)}" and the fixed second line.
ErrorMessages(e) ==
    << <<"An error occurred: ", e>>,
       <<"Please check your API keys and try again.", "">> >>

\* What a script run has rendered before it reaches line 146.  progress -1
\* stands for "no progress bar"; footer tells whether lines 213-215 ran.
BlankPage ==
    [ errors |-> << >>, status |-> "", progress |-> -1,
      tabs |-> << >>, panes |-> << >>, footer |-> FALSE ]

\* Lines 183-194 and 196-207: heading, div and download button of one tab.
Pane(heading, class, content, label, file_name) ==
    [ heading |-> heading,
      div |-> [class |-> class, body |-> content],
      download |-> [label |-> label, data |-> content,
                    file_name |-> file_name, mime |-> "text/plain"] ]

\* Lines 177-207.
CompletedPage(research, blog) ==
    [ errors |-> << >>, status |-> "Process completed!", progress |-> 100,
      tabs |-> <<"Research Report", "Blog Post">>,
      panes |-> << Pane("Research Findings", "research-output", research,
                        "Download Research Report", "research_report.txt"),
                   Pane("Blog Post", "blog-output", blog,
                        "Download Blog Post", "blog_post.txt") >>,
      footer |-> TRUE ]

-----------------------------------------------------------------------------
(* The state machine.                                                      *)

\* The first script run of a session: the page is loaded with both key
\* fields empty and the default topic, the button has not been pressed.
Init ==
    /\ environ0 \in InitialEnvirons
    /\ environ = Sidebar(environ0, "", "")
    /\ api_key = ""
    /\ serper_api_key = ""
    /\ topic = DefaultTopic
    /\ button = FALSE
    /\ pc = "idle"
    /\ kickoffs = 0
    /\ crew = << >>
    /\ result = NoResult
    /\ research_content = << >>
    /\ blog_content = << >>
    /\ page = [BlankPage EXCEPT !.footer = TRUE]
    /\ entries = << >>

\* The user can act when no script run is in progress.
Interactive == pc \in {"idle", "uncaught"}

\* One script run, lines 116-164, with the widget values a, s, t and the
\* button value `clicked`: it ends at the footer, or stops inside
\* crew.kickoff (line 114, called from line 164).
RunScript(a, s, t, clicked) ==
    /\ api_key' = a
    /\ serper_api_key' = s
    /\ topic' = t
    /\ environ' = Sidebar(environ, a, s)
    /\ button' = clicked
    /\ result' = NoResult
    /\ research_content' = << >>
    /\ blog_content' = << >>
    /\ IF ~HandlerRuns(clicked)
       THEN /\ pc' = "idle"
            /\ kickoffs' = 0
            /\ crew' = << >>
            /\ page' = [BlankPage EXCEPT !.footer = TRUE]
       ELSE IF MissingKeys(a, s)
       THEN /\ pc' = "idle"
            /\ kickoffs' = 0
            /\ crew' = << >>
            /\ page' = [BlankPage EXCEPT !.errors = <<BothKeysMessage>>,
                                         !.footer = TRUE]
       ELSE /\ pc' = "calling"
            /\ kickoffs' = 1
            /\ crew' = <<run_crew(t)>>
            /\ page' = [BlankPage EXCEPT
                          !.status = "Analyzing data and generating insights...",
                          !.progress = 40]

\* The user changes the OpenAI key field (line 122); the script reruns.
EnterOpenAIKey(v) ==
    /\ Interactive
    /\ v # api_key
    /\ Len(entries) < MaxEntries
    /\ RunScript(v, serper_api_key, topic, FALSE)
    /\ entries' = Append(entries, <<"OPENAI_API_KEY", v>>)
    /\ UNCHANGED environ0

\* The user changes the SerperDev key field (line 126); the script reruns.
EnterSerperKey(v) ==
    /\ Interactive
    /\ v # serper_api_key
    /\ Len(entries) < MaxEntries
    /\ RunScript(api_key, v, topic, FALSE)
    /\ entries' = Append(entries, <<"SERPER_API_KEY", v>>)
    /\ UNCHANGED environ0

\* The user changes the topic field (line 143); the script reruns.
EnterTopic(t) ==
    /\ Interactive
    /\ t # topic
    /\ RunScript(api_key, serper_api_key, t, FALSE)
    /\ UNCHANGED <<entries, environ0>>

\* The user presses the button (line 146); the script reruns with the
\* button value True.
PressButton ==
    /\ Interactive
    /\ RunScript(api_key, serper_api_key, topic, TRUE)
    /\ UNCHANGED <<entries, environ0>>

\* Lines 209-211: exception e reaches the top-level try statement with the
\* page as rendered so far.  A caught exception is reported and the script
\* runs on to the footer; any other aborts the script run.
HandleException(e, rendered) ==
    IF OuterExcept(e)
    THEN /\ pc' = "idle"
         /\ page' = [rendered EXCEPT !.errors = ErrorMessages(e),
                                     !.footer = TRUE]
    ELSE /\ pc' = "uncaught"
         /\ page' = rendered

\* crew.kickoff returns r: lines 164-207 and the footer.
KickoffReturns(r) ==
    /\ pc = "calling"
    /\ result' = r
    /\ crew' = << >>
    /\ LET split == SplitResult(r)
           at80 == [page EXCEPT !.status = "Creating content...",
                                !.progress = 80]
       IN  IF split.raised = ""
           THEN /\ research_content' = split.research_content
                /\ blog_content' = split.blog_content
                /\ pc' = "idle"
                /\ page' = CompletedPage(split.research_content,
                                         split.blog_content)
           ELSE /\ UNCHANGED <<research_content, blog_content>>
                /\ HandleException(split.raised, at80)
    /\ UNCHANGED <<api_key, serper_api_key, topic, environ, button, kickoffs,
                   entries, environ0>>

\* crew.kickoff raises e: control leaves line 164 for lines 209-211.
KickoffRaises(e) ==
    /\ pc = "calling"
    /\ crew' = << >>
    /\ HandleException(e, page)
    /\ UNCHANGED <<api_key, serper_api_key, topic, environ, button, kickoffs,
                   result, research_content, blog_content, entries, environ0>>

Next ==
    \/ \E v \in Keys : EnterOpenAIKey(v)
    \/ \E v \in Keys : EnterSerperKey(v)
    \/ \E t \in Topics : EnterTopic(t)
    \/ PressButton
    \/ \E r \in Returned : KickoffReturns(r)
    \/ \E e \in Raised : KickoffRaises(e)

Spec == Init /\ [][Next]_vars

-----------------------------------------------------------------------------
(* Properties.                                                             *)

\* The entries made into the key field that feeds environment variable n,
\* oldest first.
EntriesOf(n) ==
    LET mine == SelectSeq(entries, LAMBDA e : e[1] = n)
    IN  [i \in 1..Len(mine) |-> mine[i][2]]

\* The latest script run was a button press whose call to crew.kickoff
\* raised: the call was made, it is over, and `result` was never bound.
KickoffFailed == kickoffs = 1 /\ pc # "calling" /\ result = NoResult

\* C1: a press of the button while the OpenAI key field or the SerperDev key
\* field is empty invokes crew.kickoff zero times and ends with the "enter
\* both API keys" error shown, whatever was entered or pressed before.
C1_NoCallWithoutKeys ==
    (button /\ (api_key = "" \/ serper_api_key = "")) =>
        /\ kickoffs = 0
        /\ crew = << >>
        /\ pc = "idle"
        /\ page.errors = <<BothKeysMessage>>
        /\ page.footer

\* C1 witness: the button was pressed with the OpenAI field cleared while
\* the environment still holds an OpenAI key and the other field is filled.
C1_Witness ==
    /\ button
    /\ api_key = ""
    /\ serper_api_key # ""
    /\ "OPENAI_API_KEY" \in DOMAIN environ
    /\ page.errors = <<BothKeysMessage>>

\* C2: for a returned text that contains "BLOG POST:", research_content is
\* the text strictly before the first occurrence of the marker and
\* blog_content is all the text after that occurrence, later markers
\* included; "X BLOG POST: Y BLOG POST: Z" gives ("X ", " Y BLOG POST: Z").
C2_SplitAtFirstMarker ==
    (result.type = "str" /\ Contains(result.value, Marker)) =>
        /\ research_content \o Marker \o blog_content = result.value
        /\ \A j \in 1..Len(research_content) :
               ~OccursAt(result.value, Marker, j)
        /\ Len(page.panes) = 2
        /\ page.panes[1].div.body = research_content
        /\ page.panes[2].div.body = blog_content
        /\ result.value = ExampleTwice =>
               /\ research_content = <<"X", " ">>
               /\ blog_content =
                    <<" ", "Y", " ", "B", "L", "O", "G", " ",
                      "P", "O", "S", "T", ":", " ", "Z">>

\* C2 witness: the text with two markers was returned and split at the first.
C2_Witness ==
    /\ result = StrResult(ExampleTwice)
    /\ research_content = <<"X", " ">>
    /\ Contains(blog_content, Marker)

\* C3: for a returned text without "BLOG POST:", research_content is the
\* whole text, blog_content is empty, and the run is not an error: both
\* panes are rendered.
C3_NoMarkerAllResearch ==
    (result.type = "str" /\ ~Contains(result.value, Marker)) =>
        /\ research_content = result.value
        /\ blog_content = << >>
        /\ pc = "idle"
        /\ page.errors = << >>
        /\ Len(page.panes) = 2
        /\ page.panes[1].download.data = result.value
        /\ page.panes[2].download.data = << >>

\* C3 witness: "no marker here" was returned and rendered whole.
C3_Witness ==
    /\ result = StrResult(ExampleAbsent)
    /\ research_content = ExampleAbsent
    /\ Len(page.panes) = 2

\* C4: whenever crew.kickoff returned a str (empty, or with no, one or many
\* markers), the run is completed: progress 100, both tabs rendered, no
\* error shown.
C4_StringAlwaysCompletes ==
    result.type = "str" =>
        /\ pc = "idle"
        /\ page.progress = 100
        /\ page.tabs = <<"Research Report", "Blog Post">>
        /\ Len(page.panes) = 2
        /\ page.errors = << >>
        /\ page.footer

\* C4 witness: the empty string was returned and the run completed.
C4_Witness ==
    /\ result = StrResult(<< >>)
    /\ page.progress = 100
    /\ Len(page.tabs) = 2

\* C5: when crew.kickoff raises in a run with both keys present, the run
\* ends showing the two generic error messages, renders no tab, pane or
\* download button, and the script runs on to its end.
C5_FailureIsCaught ==
    KickoffFailed =>
        /\ api_key # "" /\ serper_api_key # ""
        /\ pc = "idle"
        /\ \E e \in Raised : page.errors = ErrorMessages(e)
        /\ page.tabs = << >>
        /\ page.panes = << >>
        /\ page.footer

\* C5 witness: the call raised an authentication error and it was reported.
C5_Witness ==
    /\ KickoffFailed
    /\ page.errors = ErrorMessages("AuthenticationError")
    /\ page.progress = 40

\* C6: there is no retry.  A call to crew.kickoff starts only in the script
\* run of a button press and is the only call of that run; when the call
\* ends (returns or raises) the run makes no further call.
C6_NoRetry ==
    [][ /\ kickoffs' \in {0, 1}
        /\ pc' = "calling" => (pc # "calling" /\ button' /\ kickoffs' = 1)
        /\ pc = "calling" => (pc' # "calling" /\ kickoffs' = kickoffs)
      ]_vars

\* C6 witness: a run has failed on a rate-limit error and the page is idle.
C6_Witness ==
    /\ KickoffFailed
    /\ pc = "idle"
    /\ page.errors = ErrorMessages("RateLimitError")

\* C7: for a non-empty topic T the crew is given exactly two tasks, both
\* with a non-empty description; the first (research) contains T verbatim
\* and belongs to the analyst, the second (writing) to the writer.
C7_TasksFromTopic ==
    (crew # << >> /\ topic # << >>) =>
        LET tasks == crew[1].tasks
            agents == crew[1].agents
        IN  /\ Len(tasks) = 2
            /\ tasks[1].description # << >>
            /\ tasks[2].description # << >>
            /\ Contains(tasks[1].description, topic)
            /\ agents[1].role = "Senior Research Analyst"
            /\ agents[2].role = "Content Writer"
            /\ tasks[1].agent = agents[1]
            /\ tasks[2].agent = agents[2]

\* C7 witness: a crew was built for the default topic.
C7_Witness ==
    /\ crew # << >>
    /\ topic = DefaultTopic
    /\ Contains(crew[1].tasks[1].description, DefaultTopic)

\* C8 as stated: after any entries into a key field, its environment
\* variable holds exactly the most recent entry.
C8_EnvIsLastEntry ==
    \A n \in EnvNames :
        LET h == EntriesOf(n)
        IN  h # << >> =>
                /\ n \in DOMAIN environ
                /\ environ[n] = h[Len(h)]

\* C8 amended: each environment variable holds exactly the most recent
\* non-empty entry into its key field; when no non-empty entry was made it
\* is as it was at session start.
C8_EnvIsLastNonEmptyEntry ==
    \A n \in EnvNames :
        LET nonEmpty == SelectSeq(EntriesOf(n), LAMBDA v : v # "")
        IN  IF nonEmpty # << >>
            THEN /\ n \in DOMAIN environ
                 /\ environ[n] = nonEmpty[Len(nonEmpty)]
            ELSE /\ (n \in DOMAIN environ) = (n \in DOMAIN environ0)
                 /\ n \in DOMAIN environ => environ[n] = environ0[n]

\* C8 witness: k1, then k2, then the empty string were entered into the
\* OpenAI field, and the variable holds k2.
C8_Witness ==
    /\ EntriesOf("OPENAI_API_KEY") = <<"k1", "k2", "">>
    /\ environ["OPENAI_API_KEY"] = "k2"

\* C9: while crew.kickoff runs, OPENAI_API_KEY equals the OpenAI key field
\* and SERPER_API_KEY equals the SerperDev key field, both non-empty,
\* whatever the environment held before.
C9_EnvSetAtCall ==
    pc = "calling" =>
        /\ api_key # ""
        /\ serper_api_key # ""
        /\ EnvNames \subseteq DOMAIN environ
        /\ environ["OPENAI_API_KEY"] = api_key
        /\ environ["SERPER_API_KEY"] = serper_api_key

\* C9 witness: the call runs with k2 after the environment held a key at
\* session start and k1 was entered earlier.
C9_Witness ==
    /\ pc = "calling"
    /\ "OPENAI_API_KEY" \in DOMAIN environ0
    /\ EntriesOf("OPENAI_API_KEY") = <<"k1", "k2">>
    /\ environ["OPENAI_API_KEY"] = "k2"

\* C10: the writing task handed to the crew names the marker "BLOG POST:"
\* in its description or in its expected output.
C10_MarkerInWritingTask ==
    crew # << >> =>
        \/ Contains(crew[1].tasks[2].description, Marker)
        \/ Contains(crew[1].tasks[2].expected_output, Marker)
====
